---- MODULE Spec2Model ----
(***************************************************************************)
(* A model of the bevy_ufbx loader: FbxLoader::load (src/src/loader.rs)    *)
(* and the material / texture mapper (src/src/material.rs).                *)
(*                                                                         *)
(* Strings that the code takes apart (paths) are sequences of characters;  *)
(* names that it only tests for emptiness are TLA+ strings.  Option<T> is  *)
(* a sequence of length at most one: <<>> is None, <<x>> is Some(x).       *)
(* An f64 opacity is an integer count of 2^-27; every such value is an     *)
(* f64, and the f32 values of [2^-4, 2) are the multiples of the binade's  *)
(* ulp in that unit, so the cast `as f32` is modelled exactly.             *)
(***************************************************************************)
EXTENDS Integers, Sequences, FiniteSets, TLC

VARIABLES
    pc,               \* position in the operation under analysis
    settings,         \* FbxLoaderSettings handed to load
    fbx_dir,          \* load_context.path().parent(): <<>> or <<directory>>
    bytes_len,        \* bytes.len() after read_to_end
    decoder_calls,    \* the byte lengths ufbx::load_memory was invoked on
    scene,            \* the decoded ufbx::Scene
    calls,            \* the mappers that have returned, in order
    load_context,     \* [labeled, loads]: what was registered on LoadContext
    texture_handles,  \* HashMap<u32, Handle<Image>>
    materials,        \* Vec<Handle<StandardMaterial>>
    named_materials,  \* HashMap<Box<str>, Handle<StandardMaterial>>
    node_map,         \* the map process_nodes returned
    skins_node_map,   \* the map process_skins received, as an Option
    meshes,           \* Vec<Handle<Mesh>> returned by process_meshes
    ufbx_material,    \* argument of create_standard_material
    material,         \* StandardMaterial returned by create_standard_material
    result            \* what the operation returned

vars == <<pc, settings, fbx_dir, bytes_len, decoder_calls, scene, calls,
          load_context, texture_handles, materials, named_materials,
          node_map, skins_node_map, meshes, ufbx_material, material,
          result>>

(***************************************************************************)
(* Bounds of the model.                                                    *)
(***************************************************************************)
MaxMaterials == 3
MaxLoadMaterials == 2
MaxTextures == 2
MaxRefs == 3
MaxMeshes == 1
MaxExtraBytes == 1
OpacitySpread == 12

(***************************************************************************)
(* Program constants.                                                      *)
(***************************************************************************)
\* loader.rs:73, `bytes.len() < 32`
MinFbxSize == 32
\* material.rs:114, the f64 literal 1.0 in units of 2^-27
OneF64 == 134217728
\* material.rs:116, the f32 literal 0.98 (0x3F7AE148 = 16441672 * 2^-24)
\* in units of 2^-27
Point98F32 == 131533376

None == <<>>
Some(x) == <<x>>
EmptyMap == [x \in {} |-> x]

(***************************************************************************)
(* Numeric conversion: `x as f32` on an f64 (round to nearest, ties to     *)
(* even), on magnitudes below 2^28 units.                                  *)
(***************************************************************************)
RECURSIVE Ulp(_)
Ulp(a) == IF a < 16777216 THEN 1 ELSE 2 * Ulp(a \div 2)

RoundMagnitude(a) ==
    LET u == Ulp(a)
        q == a \div u
        r == a % u
    IN  IF 2 * r < u THEN q * u
        ELSE IF 2 * r > u THEN (q + 1) * u
        ELSE IF q % 2 = 0 THEN q * u ELSE (q + 1) * u

AsF32(x) == IF x < 0 THEN 0 - RoundMagnitude(0 - x) ELSE RoundMagnitude(x)

(***************************************************************************)
(* Paths.                                                                  *)
(***************************************************************************)
Sep == "/"

IsAbsolutePath(p) == Len(p) > 0 /\ p[1] = Sep

\* PathBuf::join (PathBuf::push on a copy), Unix rules
PathJoin(base, p) ==
    IF IsAbsolutePath(p) THEN p
    ELSE IF Len(base) > 0 /\ base[Len(base)] # Sep THEN base \o <<Sep>> \o p
    ELSE base \o p

\* the `match load_context.path().parent()` of process_textures
FbxDirBuf(parent) == IF parent = None THEN <<>> ELSE parent[1]

\* faulty variant: the directory and the filename concatenated as strings
TexturePathMutant(texture, parent) ==
    IF texture.absolute_filename # <<>>
    THEN texture.absolute_filename
    ELSE FbxDirBuf(parent) \o texture.filename

\* material.rs:62-73, the `texture_path` of one texture
TexturePath(texture, parent) ==
    IF texture.absolute_filename # <<>>
    THEN texture.absolute_filename
    ELSE PathJoin(FbxDirBuf(parent), texture.filename)

(***************************************************************************)
(* process_textures: one load request per texture with a filename, the     *)
(* handle (identified by the requested path) stored under the element id.  *)
(***************************************************************************)
RECURSIVE TexturesLoop(_, _, _, _)
TexturesLoop(textures, i, parent, acc) ==
    IF i > Len(textures) THEN acc
    ELSE LET texture == textures[i]
         IN  IF texture.filename # <<>>
             THEN LET texture_path == TexturePath(texture, parent)
                  IN  TexturesLoop(textures, i + 1, parent,
                        [loads |-> Append(acc.loads, texture_path),
                         handles |-> (texture.element_id :> texture_path)
                                       @@ acc.handles])
             ELSE TexturesLoop(textures, i + 1, parent, acc)

process_textures(sc, parent, ctx) ==
    LET r == TexturesLoop(sc.textures, 1, parent,
                          [loads |-> <<>>, handles |-> EmptyMap])
    IN  [texture_handles |-> r.handles,
         load_context |-> [ctx EXCEPT !.loads = ctx.loads \o r.loads]]

(***************************************************************************)
(* create_standard_material.                                               *)
(***************************************************************************)
DefaultStandardMaterial ==
    [alpha_mode |-> "Opaque",
     base_color_texture |-> None,
     uv_transform |-> None,
     normal_map_texture |-> None,
     metallic_roughness_texture |-> None,
     emissive_texture |-> None,
     occlusion_texture |-> None]

\* material.rs:113-121
AlphaMode(opacity) ==
    IF opacity < OneF64
    THEN IF AsF32(opacity) < Point98F32 THEN "Blend" ELSE "Opaque"
    ELSE "Opaque"

\* faulty variant: a Roughness reference overwrites the slot
ApplyTextureRefMutant(m, texture_ref, handles) ==
    IF texture_ref.texture \in DOMAIN handles
    THEN LET image_handle == handles[texture_ref.texture]
             prop == texture_ref.material_prop
         IN  IF prop \in {"Metallic", "Roughness"}
             THEN [m EXCEPT !.metallic_roughness_texture = Some(image_handle)]
             ELSE m
    ELSE m

\* material.rs:125-140, the body of the loop over ufbx_material.textures
ApplyTextureRef(m, texture_ref, handles) ==
    IF texture_ref.texture \in DOMAIN handles
    THEN LET image_handle == handles[texture_ref.texture]
             prop == texture_ref.material_prop
         IN  IF prop \in {"DiffuseColor", "BaseColor"}
             THEN [m EXCEPT !.base_color_texture = Some(image_handle),
                            !.uv_transform = Some(texture_ref.texture)]
             ELSE IF prop = "NormalMap"
             THEN [m EXCEPT !.normal_map_texture = Some(image_handle)]
             ELSE IF prop = "Metallic"
             THEN [m EXCEPT !.metallic_roughness_texture = Some(image_handle)]
             ELSE IF prop = "Roughness" /\ m.metallic_roughness_texture = None
             THEN [m EXCEPT !.metallic_roughness_texture = Some(image_handle)]
             ELSE IF prop = "EmissiveColor"
             THEN [m EXCEPT !.emissive_texture = Some(image_handle)]
             ELSE IF prop = "AmbientOcclusion"
             THEN [m EXCEPT !.occlusion_texture = Some(image_handle)]
             ELSE m
    ELSE m

RECURSIVE TextureRefsLoop(_, _, _, _)
TextureRefsLoop(m, refs, i, handles) ==
    IF i > Len(refs) THEN m
    ELSE TextureRefsLoop(ApplyTextureRef(m, refs[i], handles), refs, i + 1,
                         handles)

create_standard_material(um, handles) ==
    TextureRefsLoop(
        [DefaultStandardMaterial EXCEPT !.alpha_mode = AlphaMode(um.opacity)],
        um.textures, 1, handles)

(***************************************************************************)
(* process_materials.                                                      *)
(***************************************************************************)
\* FbxAssetLabel::Material(index), rendered "Material<index>"
MaterialLabel(index) == [tag |-> "Material", index |-> index]
MeshLabel(index) == [tag |-> "Mesh", index |-> index]
SceneLabel(index) == [tag |-> "Scene", index |-> index]

\* LoadContext::add_labeled_asset: registers the asset under the label; the
\* handle it returns is identified by that label
AddLabeledAsset(ctx, label, asset) ==
    [ctx EXCEPT !.labeled = Append(ctx.labeled,
                                   [label |-> label, asset |-> asset])]

\* faulty variant: the identity test is missing
MaterialsStepMutantNoSkip(acc, index, um, handles) ==
    LET handle == MaterialLabel(index)
    IN  [ctx |-> AddLabeledAsset(acc.ctx, handle,
                                 create_standard_material(um, handles)),
         named |-> IF um.name # "" THEN (um.name :> handle) @@ acc.named
                   ELSE acc.named,
         materials |-> Append(acc.materials, handle)]

\* faulty variant: the label counts the materials emitted so far
MaterialsStepMutantLabel(acc, index, um, handles) ==
    IF um.element_id = 0 THEN acc
    ELSE LET handle == MaterialLabel(Len(acc.materials))
         IN  [ctx |-> AddLabeledAsset(acc.ctx, handle,
                                      create_standard_material(um, handles)),
              named |-> IF um.name # "" THEN (um.name :> handle) @@ acc.named
                        ELSE acc.named,
              materials |-> Append(acc.materials, handle)]

\* material.rs:29-48, one iteration of the loop over scene.materials;
\* `index` is the zero-based enumerate() index
MaterialsStep(acc, index, um, handles) ==
    IF um.element_id = 0 THEN acc
    ELSE LET standard_material == create_standard_material(um, handles)
             handle == MaterialLabel(index)
         IN  [ctx |-> AddLabeledAsset(acc.ctx, handle, standard_material),
              named |-> IF um.name # "" THEN (um.name :> handle) @@ acc.named
                        ELSE acc.named,
              materials |-> Append(acc.materials, handle)]

RECURSIVE MaterialsLoop(_, _, _, _)
MaterialsLoop(ms, i, handles, acc) ==
    IF i > Len(ms) THEN acc
    ELSE MaterialsLoop(ms, i + 1, handles,
                       MaterialsStep(acc, i - 1, ms[i], handles))

process_materials(sc, parent, ctx) ==
    LET t == process_textures(sc, parent, ctx)
        r == MaterialsLoop(sc.materials, 1, t.texture_handles,
                           [ctx |-> t.load_context, named |-> EmptyMap,
                            materials |-> <<>>])
    IN  [materials |-> r.materials,
         named_materials |-> r.named,
         texture_handles |-> t.texture_handles,
         load_context |-> r.ctx]

(***************************************************************************)
(* Input domains.                                                          *)
(***************************************************************************)
RECURSIVE SeqsUpTo(_, _)
SeqsUpTo(S, n) ==
    IF n = 0 THEN {<<>>}
    ELSE LET shorter == SeqsUpTo(S, n - 1)
         IN  shorter \cup {Append(s, x) : s \in {t \in shorter : Len(t) = n - 1},
                                          x \in S}

DistinctIds(s) ==
    \A i, j \in 1..Len(s) : i # j => s[i].element_id # s[j].element_id

TextureIds == 1..MaxTextures
Filenames == {<<>>, <<"t">>, <<Sep, "t">>}
AbsoluteFilenames == {<<>>, <<Sep, "a">>, <<"a">>}
TextureRecords ==
    [element_id : TextureIds, filename : Filenames,
     absolute_filename : AbsoluteFilenames]
\* element ids are unique within a decoded scene
TextureSeqs == {s \in SeqsUpTo(TextureRecords, MaxTextures) : DistinctIds(s)}
FbxDirs == {None, Some(<<>>), Some(<<"d">>), Some(<<"d", Sep>>)}

MaterialProps ==
    {"DiffuseColor", "BaseColor", "NormalMap", "Metallic", "Roughness",
     "EmissiveColor", "AmbientOcclusion", "Bump"}
SlotProps == {"Metallic", "Roughness", "BaseColor", "Bump"}
\* a reference names a texture by element id; whether that texture has a
\* handle is up to the table
TextureRefs(props) == [texture : TextureIds, material_prop : props]
HandleTables ==
    UNION {[ids -> {<<"x">>, <<"y">>}] : ids \in SUBSET TextureIds}

OpacityValues ==
    {0 - OneF64, 0, OneF64 \div 2, OneF64 - 1, OneF64, OneF64 + 1, 2 * OneF64}
      \cup ((Point98F32 - OpacitySpread)..(Point98F32 + OpacitySpread))

NoMaterial == [element_id |-> 0, name |-> "", opacity |-> OneF64,
               textures |-> <<>>]
NoScene == [materials |-> <<>>, textures |-> <<>>, meshes |-> 0]
NoContext == [labeled |-> <<>>, loads |-> <<>>]
NoResult == [kind |-> "None", error |-> "", asset |-> None]
DefaultSettings == [load_materials |-> {"MAIN_WORLD", "RENDER_WORLD"}]

(***************************************************************************)
(* create_standard_material on its own, for the alpha-mode rule: every     *)
(* opacity near the thresholds, with at most one texture reference.        *)
(***************************************************************************)
InitAlpha ==
    /\ pc = "call"
    /\ settings = DefaultSettings
    /\ fbx_dir = None
    /\ bytes_len = 0
    /\ decoder_calls = <<>>
    /\ scene = NoScene
    /\ calls = <<>>
    /\ load_context = NoContext
    /\ texture_handles \in {EmptyMap, 1 :> <<"x">>}
    /\ materials = <<>>
    /\ named_materials = EmptyMap
    /\ node_map = EmptyMap
    /\ skins_node_map = None
    /\ meshes = <<>>
    /\ \E o \in OpacityValues, refs \in SeqsUpTo(TextureRefs(MaterialProps), 1) :
          ufbx_material = [element_id |-> 1, name |-> "m", opacity |-> o,
                           textures |-> refs]
    /\ material = DefaultStandardMaterial
    /\ result = NoResult

CreateStandardMaterial ==
    /\ pc = "call"
    /\ material' = create_standard_material(ufbx_material, texture_handles)
    /\ pc' = "return"
    /\ result' = [NoResult EXCEPT !.kind = "Ok"]
    /\ UNCHANGED <<settings, fbx_dir, bytes_len, decoder_calls, scene, calls,
                   load_context, texture_handles, materials, named_materials,
                   node_map, skins_node_map, meshes, ufbx_material>>

NextMaterial == CreateStandardMaterial

SpecAlpha == InitAlpha /\ [][NextMaterial]_vars

(***************************************************************************)
(* create_standard_material on its own, for the texture slots: every list  *)
(* of up to MaxRefs references and every handle table.                     *)
(***************************************************************************)
InitSlots ==
    /\ pc = "call"
    /\ settings = DefaultSettings
    /\ fbx_dir = None
    /\ bytes_len = 0
    /\ decoder_calls = <<>>
    /\ scene = NoScene
    /\ calls = <<>>
    /\ load_context = NoContext
    /\ texture_handles \in HandleTables
    /\ materials = <<>>
    /\ named_materials = EmptyMap
    /\ node_map = EmptyMap
    /\ skins_node_map = None
    /\ meshes = <<>>
    /\ \E refs \in SeqsUpTo(TextureRefs(SlotProps), MaxRefs) :
          ufbx_material = [element_id |-> 1, name |-> "m",
                           opacity |-> OneF64, textures |-> refs]
    /\ material = DefaultStandardMaterial
    /\ result = NoResult

SpecSlots == InitSlots /\ [][NextMaterial]_vars

(***************************************************************************)
(* process_textures on its own: every list of up to MaxTextures textures   *)
(* and every parent directory of the FBX file.                             *)
(***************************************************************************)
InitTextures ==
    /\ pc = "call"
    /\ settings = DefaultSettings
    /\ fbx_dir \in FbxDirs
    /\ bytes_len = 0
    /\ decoder_calls = <<>>
    /\ \E ts \in TextureSeqs : scene = [NoScene EXCEPT !.textures = ts]
    /\ calls = <<>>
    /\ load_context = NoContext
    /\ texture_handles = EmptyMap
    /\ materials = <<>>
    /\ named_materials = EmptyMap
    /\ node_map = EmptyMap
    /\ skins_node_map = None
    /\ meshes = <<>>
    /\ ufbx_material = NoMaterial
    /\ material = DefaultStandardMaterial
    /\ result = NoResult

ProcessTextures ==
    /\ pc = "call"
    /\ LET r == process_textures(scene, fbx_dir, load_context)
       IN  /\ texture_handles' = r.texture_handles
           /\ load_context' = r.load_context
    /\ pc' = "return"
    /\ result' = [NoResult EXCEPT !.kind = "Ok"]
    /\ UNCHANGED <<settings, fbx_dir, bytes_len, decoder_calls, scene, calls,
                   materials, named_materials, node_map, skins_node_map,
                   meshes, ufbx_material, material>>

NextTextures == ProcessTextures

SpecTextures == InitTextures /\ [][NextTextures]_vars

(***************************************************************************)
(* process_materials on its own: every list of up to MaxMaterials          *)
(* materials, with and without a texture in the scene.                     *)
(***************************************************************************)
MaterialIds == {0, 1, 2}
MaterialNames == {"", "m"}
MaterialBodies ==
    {[opacity |-> OneF64, textures |-> <<>>],
     [opacity |-> OneF64 \div 2,
      textures |-> <<[texture |-> 1, material_prop |-> "BaseColor"]>>]}
MaterialRecords ==
    {[element_id |-> id, name |-> n, opacity |-> b.opacity,
      textures |-> b.textures] :
        id \in MaterialIds, n \in MaterialNames, b \in MaterialBodies}
SceneTextures ==
    {<<>>,
     <<[element_id |-> 1, filename |-> <<"t">>, absolute_filename |-> <<>>]>>}
Scenes(records, n) ==
    {[materials |-> ms, textures |-> ts, meshes |-> k] :
        ms \in SeqsUpTo(records, n), ts \in SceneTextures,
        k \in 0..MaxMeshes}

InitMaterials ==
    /\ pc = "call"
    /\ settings = DefaultSettings
    /\ fbx_dir = Some(<<"d">>)
    /\ bytes_len = 0
    /\ decoder_calls = <<>>
    /\ scene \in {sc \in Scenes(MaterialRecords, MaxMaterials) : sc.meshes = 0}
    /\ calls = <<>>
    /\ load_context = NoContext
    /\ texture_handles = EmptyMap
    /\ materials = <<>>
    /\ named_materials = EmptyMap
    /\ node_map = EmptyMap
    /\ skins_node_map = None
    /\ meshes = <<>>
    /\ ufbx_material = NoMaterial
    /\ material = DefaultStandardMaterial
    /\ result = NoResult

ProcessMaterials ==
    /\ pc = "call"
    /\ LET r == process_materials(scene, fbx_dir, load_context)
       IN  /\ materials' = r.materials
           /\ named_materials' = r.named_materials
           /\ texture_handles' = r.texture_handles
           /\ load_context' = r.load_context
    /\ pc' = "return"
    /\ result' = [NoResult EXCEPT !.kind = "Ok"]
    /\ UNCHANGED <<settings, fbx_dir, bytes_len, decoder_calls, scene, calls,
                   node_map, skins_node_map, meshes, ufbx_material, material>>

NextMaterials == ProcessMaterials

SpecMaterials == InitMaterials /\ [][NextMaterials]_vars

(***************************************************************************)
(* FbxLoader::load.  The mappers process_meshes, process_nodes,            *)
(* process_skins and build_scene return a Result that load propagates with *)
(* `?`; each either succeeds or fails with an error of its own.            *)
(***************************************************************************)
UsageFlags == {"MAIN_WORLD", "RENDER_WORLD"}
SettingsSet == [load_materials : SUBSET UsageFlags]
ByteLengths == 0..(MinFbxSize + MaxExtraBytes)
LoadDirs == {Some(<<"d">>)}
NodeMaps == {EmptyMap, (7 :> 0) @@ (9 :> 1)}
LoadScenes ==
    Scenes({m \in MaterialRecords : m.element_id \in {0, 1}},
           MaxLoadMaterials)

Init ==
    /\ pc = "read"
    /\ settings \in SettingsSet
    /\ fbx_dir \in LoadDirs
    /\ bytes_len = 0
    /\ decoder_calls = <<>>
    /\ scene = NoScene
    /\ calls = <<>>
    /\ load_context = NoContext
    /\ texture_handles = EmptyMap
    /\ materials = <<>>
    /\ named_materials = EmptyMap
    /\ node_map = EmptyMap
    /\ skins_node_map = None
    /\ meshes = <<>>
    /\ ufbx_material = NoMaterial
    /\ material = DefaultStandardMaterial
    /\ result = NoResult

Fail(kind) ==
    /\ result' = [kind |-> "Err", error |-> kind, asset |-> None]
    /\ pc' = "done"

Called(mapper, ok) == Append(calls, [mapper |-> mapper, ok |-> ok])

\* loader.rs:66-67
ReadBytes ==
    /\ pc = "read"
    /\ \/ /\ \E n \in ByteLengths : bytes_len' = n
          /\ pc' = "validate"
          /\ UNCHANGED result
       \/ /\ Fail("Io")
          /\ UNCHANGED bytes_len
    /\ UNCHANGED <<settings, fbx_dir, decoder_calls, scene, calls,
                   load_context, texture_handles, materials, named_materials,
                   node_map, skins_node_map, meshes, ufbx_material, material>>

\* faulty variant: the size test is off by one
ValidateMutant ==
    /\ pc = "validate"
    /\ IF bytes_len = 0 \/ bytes_len <= MinFbxSize
       THEN Fail("InvalidData")
       ELSE pc' = "decode" /\ UNCHANGED result
    /\ UNCHANGED <<settings, fbx_dir, bytes_len, decoder_calls, scene, calls,
                   load_context, texture_handles, materials, named_materials,
                   node_map, skins_node_map, meshes, ufbx_material, material>>

\* loader.rs:69-75
Validate ==
    /\ pc = "validate"
    /\ IF bytes_len = 0
       THEN Fail("InvalidData")
       ELSE IF bytes_len < MinFbxSize
       THEN Fail("InvalidData")
       ELSE pc' = "decode" /\ UNCHANGED result
    /\ UNCHANGED <<settings, fbx_dir, bytes_len, decoder_calls, scene, calls,
                   load_context, texture_handles, materials, named_materials,
                   node_map, skins_node_map, meshes, ufbx_material, material>>

\* faulty variant: the decoder's error is recorded but load carries on
DecodeMutant ==
    /\ pc = "decode"
    /\ decoder_calls' = Append(decoder_calls, bytes_len)
    /\ \/ /\ scene' \in LoadScenes
          /\ UNCHANGED result
       \/ /\ result' = [kind |-> "Err", error |-> "UfbxError", asset |-> None]
          /\ UNCHANGED scene
    /\ pc' = "meshes"
    /\ UNCHANGED <<settings, fbx_dir, bytes_len, calls, load_context,
                   texture_handles, materials, named_materials, node_map,
                   skins_node_map, meshes, ufbx_material, material>>

\* loader.rs:77-87
Decode ==
    /\ pc = "decode"
    /\ decoder_calls' = Append(decoder_calls, bytes_len)
    /\ \/ /\ scene' \in LoadScenes
          /\ pc' = "meshes"
          /\ UNCHANGED result
       \/ /\ Fail("UfbxError")
          /\ UNCHANGED scene
    /\ UNCHANGED <<settings, fbx_dir, bytes_len, calls, load_context,
                   texture_handles, materials, named_materials, node_map,
                   skins_node_map, meshes, ufbx_material, material>>

RECURSIVE RegisterMeshes(_, _, _)
RegisterMeshes(ctx, i, n) ==
    IF i >= n THEN ctx
    ELSE RegisterMeshes(AddLabeledAsset(ctx, MeshLabel(i), "Mesh"), i + 1, n)

\* process_meshes, when it succeeds: one handle and one sub-asset labelled
\* Mesh<index> per decoded mesh
process_meshes(sc, ctx) ==
    [meshes |-> [i \in 1..sc.meshes |-> MeshLabel(i - 1)],
     load_context |-> RegisterMeshes(ctx, 0, sc.meshes)]

\* build_scene, when it succeeds: the scene registered as a labeled
\* sub-asset; the handle it returns is identified by the label
build_scene(ctx) ==
    [scene_handle |-> SceneLabel(0),
     load_context |-> AddLabeledAsset(ctx, SceneLabel(0), "Scene")]

\* faulty variant: the material step is left out
ProcessMeshesStepMutant ==
    /\ pc = "meshes"
    /\ \E ok \in BOOLEAN :
          /\ calls' = Called("meshes", ok)
          /\ IF ok
             THEN /\ load_context' = process_meshes(scene, load_context).load_context
                  /\ meshes' = process_meshes(scene, load_context).meshes
                  /\ pc' = "nodes"
                  /\ UNCHANGED result
             ELSE /\ Fail("Mapper")
                  /\ UNCHANGED <<load_context, meshes>>
    /\ UNCHANGED <<settings, fbx_dir, bytes_len, decoder_calls, scene,
                   texture_handles, materials, named_materials, node_map,
                   skins_node_map, ufbx_material, material>>

\* loader.rs:89-91
ProcessMeshesStep ==
    /\ pc = "meshes"
    /\ \E ok \in BOOLEAN :
          /\ calls' = Called("meshes", ok)
          /\ IF ok
             THEN /\ load_context' = process_meshes(scene, load_context).load_context
                  /\ meshes' = process_meshes(scene, load_context).meshes
                  /\ pc' = "materials"
                  /\ UNCHANGED result
             ELSE /\ Fail("Mapper")
                  /\ UNCHANGED <<load_context, meshes>>
    /\ UNCHANGED <<settings, fbx_dir, bytes_len, decoder_calls, scene,
                   texture_handles, materials, named_materials, node_map,
                   skins_node_map, ufbx_material, material>>

\* faulty variant: the settings are not consulted
ProcessMaterialsStepMutant ==
    /\ pc = "materials"
    /\ LET r == process_materials(scene, fbx_dir, load_context)
       IN  /\ calls' = Called("materials", TRUE)
           /\ materials' = r.materials
           /\ named_materials' = r.named_materials
           /\ texture_handles' = r.texture_handles
           /\ load_context' = r.load_context
    /\ pc' = "nodes"
    /\ UNCHANGED <<settings, fbx_dir, bytes_len, decoder_calls, scene,
                   node_map, skins_node_map, meshes, ufbx_material, material,
                   result>>

\* loader.rs:93-98
ProcessMaterialsStep ==
    /\ pc = "materials"
    /\ IF settings.load_materials # {}
       THEN LET r == process_materials(scene, fbx_dir, load_context)
            IN  /\ calls' = Called("materials", TRUE)
                /\ materials' = r.materials
                /\ named_materials' = r.named_materials
                /\ texture_handles' = r.texture_handles
                /\ load_context' = r.load_context
       ELSE /\ materials' = <<>>
            /\ named_materials' = EmptyMap
            /\ UNCHANGED <<calls, texture_handles, load_context>>
    /\ pc' = "nodes"
    /\ UNCHANGED <<settings, fbx_dir, bytes_len, decoder_calls, scene,
                   node_map, skins_node_map, meshes, ufbx_material, material,
                   result>>

\* loader.rs:100-101
ProcessNodesStep ==
    /\ pc = "nodes"
    /\ \E ok \in BOOLEAN :
          /\ calls' = Called("nodes", ok)
          /\ IF ok
             THEN /\ node_map' \in NodeMaps
                  /\ pc' = "skins"
                  /\ UNCHANGED result
             ELSE /\ Fail("Mapper")
                  /\ UNCHANGED node_map
    /\ UNCHANGED <<settings, fbx_dir, bytes_len, decoder_calls, scene,
                   load_context, texture_handles, materials, named_materials,
                   skins_node_map, meshes, ufbx_material, material>>

\* faulty variant: process_skins is handed a fresh map
ProcessSkinsStepMutant ==
    /\ pc = "skins"
    /\ skins_node_map' = Some(EmptyMap)
    /\ \E ok \in BOOLEAN :
          /\ calls' = Called("skins", ok)
          /\ IF ok
             THEN pc' = "scene" /\ UNCHANGED result
             ELSE Fail("Mapper")
    /\ UNCHANGED <<settings, fbx_dir, bytes_len, decoder_calls, scene,
                   load_context, texture_handles, materials, named_materials,
                   node_map, meshes, ufbx_material, material>>

\* loader.rs:103-104
ProcessSkinsStep ==
    /\ pc = "skins"
    /\ skins_node_map' = Some(node_map)
    /\ \E ok \in BOOLEAN :
          /\ calls' = Called("skins", ok)
          /\ IF ok
             THEN pc' = "scene" /\ UNCHANGED result
             ELSE Fail("Mapper")
    /\ UNCHANGED <<settings, fbx_dir, bytes_len, decoder_calls, scene,
                   load_context, texture_handles, materials, named_materials,
                   node_map, meshes, ufbx_material, material>>

\* loader.rs:106-116
BuildSceneStep ==
    /\ pc = "scene"
    /\ \E ok \in BOOLEAN :
          /\ calls' = Called("scene", ok)
          /\ IF ok
             THEN /\ load_context' = build_scene(load_context).load_context
                  /\ pc' = "package"
                  /\ UNCHANGED result
             ELSE /\ Fail("Mapper")
                  /\ UNCHANGED load_context
    /\ UNCHANGED <<settings, fbx_dir, bytes_len, decoder_calls, scene,
                   texture_handles, materials, named_materials, node_map,
                   skins_node_map, meshes, ufbx_material, material>>

\* loader.rs:118-141
Package ==
    /\ pc = "package"
    /\ result' = [kind |-> "Ok", error |-> "",
                  asset |-> Some([scenes |-> <<SceneLabel(0)>>,
                                  default_scene |-> Some(SceneLabel(0)),
                                  meshes |-> meshes,
                                  materials |-> materials,
                                  named_materials |-> named_materials])]
    /\ pc' = "done"
    /\ UNCHANGED <<settings, fbx_dir, bytes_len, decoder_calls, scene, calls,
                   load_context, texture_handles, materials, named_materials,
                   node_map, skins_node_map, meshes, ufbx_material, material>>

Next ==
    \/ ReadBytes
    \/ Validate
    \/ Decode
    \/ ProcessMeshesStep
    \/ ProcessMaterialsStep
    \/ ProcessNodesStep
    \/ ProcessSkinsStep
    \/ BuildSceneStep
    \/ Package

Spec == Init /\ [][Next]_vars

(***************************************************************************)
(* Properties of FbxLoader::load, checked under Spec.                      *)
(***************************************************************************)
Mappers == [i \in 1..Len(calls) |-> calls[i].mapper]
WasCalled(mapper) == \E i \in 1..Len(calls) : calls[i].mapper = mapper
Returned(mapper, ok) ==
    \E i \in 1..Len(calls) : calls[i] = [mapper |-> mapper, ok |-> ok]
BytesRead == pc \notin {"read", "validate"} /\ result.error # "Io"
Succeeded == pc = "done" /\ result.kind = "Ok"
MaterialsEnabled == settings.load_materials # {}
MaterialLabelsOf(ctx) ==
    {i \in 1..Len(ctx.labeled) : ctx.labeled[i].label.tag = "Material"}

\* C1: once the bytes are read and checked, a buffer shorter than 32 bytes
\* has ended the load with InvalidData and the decoder was never invoked; a
\* buffer of 32 bytes or more never ends with InvalidData and the decoder is
\* invoked exactly once, on those bytes.
C1_SizeGate ==
    /\ Len(decoder_calls) <= 1
    /\ BytesRead =>
          IF bytes_len < MinFbxSize
          THEN /\ pc = "done"
               /\ result.kind = "Err"
               /\ result.error = "InvalidData"
               /\ decoder_calls = <<>>
          ELSE /\ result.error # "InvalidData"
               /\ pc # "decode" => decoder_calls = <<bytes_len>>

C1_Witness ==
    /\ pc = "done"
    /\ bytes_len = MinFbxSize - 1
    /\ result.error = "InvalidData"
    /\ decoder_calls = <<>>

\* C2: a load that ended with InvalidData or with the decoder's error
\* returns no asset, has run no mapper and has registered neither a labeled
\* sub-asset nor a texture load.
C2_FatalIsAtomic ==
    (result.kind = "Err" /\ result.error \in {"InvalidData", "UfbxError"}) =>
        /\ result.asset = None
        /\ calls = <<>>
        /\ load_context = NoContext

C2_Witness ==
    /\ pc = "done"
    /\ result.error = "UfbxError"
    /\ decoder_calls = <<bytes_len>>

\* C3 as stated: in a successful load the mappers ran in the order
\* materials (when enabled), meshes, nodes, skins, scene assembly.
C3_MaterialsFirst ==
    Succeeded =>
        Mappers = IF MaterialsEnabled
                  THEN <<"materials", "meshes", "nodes", "skins", "scene">>
                  ELSE <<"meshes", "nodes", "skins", "scene">>

LoadOrder ==
    IF MaterialsEnabled
    THEN <<"meshes", "materials", "nodes", "skins", "scene">>
    ELSE <<"meshes", "nodes", "skins", "scene">>

\* C3 as amended: the mappers run in the order meshes, materials (when
\* enabled), nodes, skins, scene assembly; every mapper invoked so far was
\* invoked after all earlier ones returned successfully, and a successful
\* load ran them all.
C3_MeshesFirst ==
    /\ Len(calls) <= Len(LoadOrder)
    /\ Mappers = SubSeq(LoadOrder, 1, Len(calls))
    /\ \A i \in 1..Len(calls) : i < Len(calls) => calls[i].ok
    /\ Succeeded => (Len(calls) = Len(LoadOrder) /\ calls[Len(calls)].ok)

C3_Witness ==
    /\ Succeeded
    /\ MaterialsEnabled
    /\ Mappers = <<"meshes", "materials", "nodes", "skins", "scene">>

\* C4: process_skins is invoked only after process_nodes has returned
\* successfully, it receives exactly the map process_nodes produced, and
\* when process_nodes fails neither process_skins nor build_scene is
\* invoked.
C4_SkinsAfterNodes ==
    /\ \A i \in 1..Len(calls) :
          calls[i].mapper = "skins" =>
              \E j \in 1..(i - 1) : calls[j] = [mapper |-> "nodes", ok |-> TRUE]
    /\ WasCalled("skins") <=> skins_node_map # None
    /\ skins_node_map # None => skins_node_map = Some(node_map)
    /\ Returned("nodes", FALSE) =>
          /\ ~WasCalled("skins")
          /\ ~WasCalled("scene")
          /\ skins_node_map = None

C4_Witness ==
    /\ Returned("nodes", TRUE)
    /\ WasCalled("skins")
    /\ node_map # EmptyMap
    /\ skins_node_map = Some(node_map)

\* C8: with settings.load_materials empty the load requests no texture,
\* registers no material sub-asset and returns an empty material list and
\* an empty name-keyed map; the mesh, node, skin and scene steps run, in
\* that order, with the same sub-assets registered, whether or not
\* materials are enabled.
C8_MaterialsDisabled ==
    /\ ~MaterialsEnabled =>
          /\ load_context.loads = <<>>
          /\ MaterialLabelsOf(load_context) = {}
          /\ ~WasCalled("materials")
          /\ materials = <<>>
          /\ named_materials = EmptyMap
          /\ texture_handles = EmptyMap
          /\ Succeeded =>
                /\ result.asset[1].materials = <<>>
                /\ result.asset[1].named_materials = EmptyMap
    /\ Succeeded =>
          /\ SelectSeq(Mappers, LAMBDA m : m # "materials")
                = <<"meshes", "nodes", "skins", "scene">>
          /\ SelectSeq(load_context.labeled,
                       LAMBDA a : a.label.tag # "Material")
                = [i \in 1..(scene.meshes + 1) |->
                     IF i <= scene.meshes
                     THEN [label |-> MeshLabel(i - 1), asset |-> "Mesh"]
                     ELSE [label |-> SceneLabel(0), asset |-> "Scene"]]
          /\ result.asset[1].meshes = meshes
          /\ Len(meshes) = scene.meshes

C8_Witness ==
    /\ Succeeded
    /\ ~MaterialsEnabled
    /\ scene.meshes > 0
    /\ scene.textures # <<>>
    /\ \E i \in 1..Len(scene.materials) : scene.materials[i].element_id # 0

(***************************************************************************)
(* Properties of process_materials, checked under SpecMaterials.           *)
(***************************************************************************)
Decoded == scene.materials
NonZero == {i \in 1..Len(Decoded) : Decoded[i].element_id # 0}
LabelIndices == {materials[k].index : k \in 1..Len(materials)}
ZeroBefore(i) == \E j \in 1..i : Decoded[j].element_id = 0

\* C5: process_materials never emits the reserved identity 0: no handle of
\* the returned list, no entry of the name-keyed map and no registered
\* sub-asset belongs to a decoded material of identity 0; every decoded
\* material of non-zero identity contributes exactly one handle, so the list
\* is as long as the number of such materials.
C5_ReservedIdentitySkipped ==
    pc = "return" =>
        /\ Len(materials) = Cardinality(NonZero)
        /\ \A i \in 1..Len(Decoded) :
              Cardinality({k \in 1..Len(materials) :
                              materials[k] = MaterialLabel(i - 1)})
                 = IF Decoded[i].element_id = 0 THEN 0 ELSE 1
        /\ \A n \in DOMAIN named_materials :
              /\ named_materials[n].index + 1 \in NonZero
              /\ Decoded[named_materials[n].index + 1].name = n
        /\ Len(load_context.labeled) = Cardinality(NonZero)
        /\ \A a \in 1..Len(load_context.labeled) :
              /\ load_context.labeled[a].label.tag = "Material"
              /\ load_context.labeled[a].label.index + 1 \in NonZero

C5_Witness ==
    /\ pc = "return"
    /\ \E i \in 1..Len(Decoded) :
          Decoded[i].element_id = 0 /\ Decoded[i].name # ""
    /\ NonZero # {}
    /\ Len(materials) = Cardinality(NonZero)

\* C10: the material registered for the decoded material at zero-based
\* position i is labelled Material<i>: labels are pairwise distinct, the
\* returned list keeps the decoded order, the k-th returned handle
\* (zero-based) has label index i >= k, and i = k exactly when no
\* identity-0 material is decoded before it.
C10_LabelIsDecodedIndex ==
    pc = "return" =>
        /\ Len(load_context.labeled) = Len(materials)
        /\ \A k \in 1..Len(materials) :
              /\ load_context.labeled[k].label = materials[k]
              /\ materials[k].tag = "Material"
              /\ materials[k].index + 1 \in NonZero
              /\ load_context.labeled[k].asset
                    = create_standard_material(Decoded[materials[k].index + 1],
                                               texture_handles)
              /\ materials[k].index >= k - 1
              /\ (materials[k].index = k - 1) <=> ~ZeroBefore(materials[k].index + 1)
        /\ \A k, l \in 1..Len(materials) :
              k < l => materials[k].index < materials[l].index

C10_Witness ==
    /\ pc = "return"
    /\ Len(materials) >= 2
    /\ materials[1].index = 0
    /\ materials[2].index = 2

(***************************************************************************)
(* Properties of process_textures, checked under SpecTextures.             *)
(***************************************************************************)
WithFilename ==
    {i \in 1..Len(scene.textures) : scene.textures[i].filename # <<>>}
Dir == IF fbx_dir = None THEN <<>> ELSE fbx_dir[1]

\* C9: a texture with a non-empty filename is requested at its absolute
\* filename, unchanged, when that is non-empty, and otherwise at the FBX
\* file's parent directory joined with its filename; the handle is stored
\* under the texture's element id; a texture with an empty filename is not
\* requested and gets no table entry, whatever its absolute filename.
C9_TexturePathRule ==
    pc = "return" =>
        /\ Len(load_context.loads) = Cardinality(WithFilename)
        /\ DOMAIN texture_handles
              = {scene.textures[i].element_id : i \in WithFilename}
        /\ \A i \in WithFilename :
              LET t == scene.textures[i]
                  h == texture_handles[t.element_id]
              IN  /\ \E k \in 1..Len(load_context.loads) :
                        load_context.loads[k] = h
                  /\ t.absolute_filename # <<>> => h = t.absolute_filename
                  /\ t.absolute_filename = <<>> =>
                        /\ h = PathJoin(Dir, t.filename)
                        /\ (t.filename[1] # Sep /\ Dir # <<>>
                              /\ Dir[Len(Dir)] # Sep)
                             => h = Dir \o <<Sep>> \o t.filename
                        /\ (t.filename[1] # Sep /\ Dir = <<>>)
                             => h = t.filename

C9_Witness ==
    /\ pc = "return"
    /\ fbx_dir = Some(<<"d">>)
    /\ \E i, j \in 1..Len(scene.textures) :
          /\ scene.textures[i].filename = <<"t">>
          /\ scene.textures[i].absolute_filename = <<>>
          /\ texture_handles[scene.textures[i].element_id] = <<"d", Sep, "t">>
          /\ scene.textures[j].filename = <<>>
          /\ scene.textures[j].absolute_filename # <<>>
          /\ scene.textures[j].element_id \notin DOMAIN texture_handles

(***************************************************************************)
(* Properties of create_standard_material, checked under SpecAlpha and     *)
(* SpecSlots.                                                              *)
(***************************************************************************)
\* 0.98 lies strictly between 131533373 and 131533374 units of 2^-27
\* (0.98 * 2^27 = 131533373.44): an opacity is below 0.98 exactly when it
\* is below this value
Point98Ceil == 131533374

\* C6: the alpha mode is blend if and only if the opacity is below 0.98;
\* from 0.98 upwards, 1.0 and above included, it is opaque.
C6_AlphaThreshold ==
    pc = "return" =>
        (material.alpha_mode = "Blend" <=> ufbx_material.opacity < Point98Ceil)

Refs == ufbx_material.textures
HasRef(prop) == \E i \in 1..Len(Refs) : Refs[i].material_prop = prop
Resolved(i) == Refs[i].texture \in DOMAIN texture_handles
Image(i) == texture_handles[Refs[i].texture]
ResolvedMetallic ==
    {i \in 1..Len(Refs) : Refs[i].material_prop = "Metallic" /\ Resolved(i)}
LastOf(S) == CHOOSE i \in S : \A j \in S : j <= i

\* C7 as stated, its second half: whenever the list holds both a Metallic
\* and a Roughness reference, the metallic-roughness slot never holds the
\* image of the Roughness reference: what it holds, if anything, is the
\* image of a Metallic reference.
C7_MetallicWhenBothListed ==
    (pc = "return" /\ HasRef("Metallic") /\ HasRef("Roughness")) =>
        \/ material.metallic_roughness_texture = None
        \/ \E i \in ResolvedMetallic :
              material.metallic_roughness_texture = Some(Image(i))

\* C7 as amended: whenever the list holds a Roughness reference and a
\* Metallic reference whose texture has an image handle, in either order
\* and with other references between them, the metallic-roughness slot
\* holds the image of the last such Metallic reference.
C7_ResolvedMetallicWins ==
    (pc = "return" /\ HasRef("Roughness") /\ ResolvedMetallic # {}) =>
        material.metallic_roughness_texture
            = Some(Image(LastOf(ResolvedMetallic)))

C7_Witness ==
    /\ pc = "return"
    /\ \E i, j \in 1..Len(Refs) :
          /\ i < j
          /\ Refs[i].material_prop = "Metallic"
          /\ Refs[j].material_prop = "Roughness"
          /\ Resolved(i)
          /\ Resolved(j)
          /\ Image(i) # Image(j)
          /\ \A k \in ResolvedMetallic : k = i
          /\ material.metallic_roughness_texture = Some(Image(i))

====
